---- MODULE Spec2Model ----
(***************************************************************************)
(* The file-version index of lib/db: the per-file version lists, the       *)
(* transactional mutations updateGlobal / removeFromGlobal with their size  *)
(* fixups, and the monotonic clock.                                         *)
(***************************************************************************)
EXTENDS Integers, Sequences, FiniteSets, TLC

VARIABLES
    db,        \* the committed key-value store: [dev |-> device records, glob |-> version lists]
    size,      \* the sizeTracker: [global |-> Counters, insync |-> [Devices -> Counters]]
    batch,     \* the write batch handed to db.Write by the last closed transaction
    last,      \* the last call made: [op, device, name, version, changed, fresh]
    undo,      \* before-image of the last update by a device that had no entry
    panicked,  \* a transaction panicked: the process is gone
    ops,       \* number of calls made so far
    clast,     \* Clock.last
    mut,       \* Clock.mut: 0 when free, else the caller holding it
    pc,        \* each caller's position inside Clock.Tick
    cur,       \* each caller's local cur
    ticks,     \* the values returned by Tick, in the order the calls held the lock
    tx,        \* the read-write transaction in progress: its snapshot and its batch
    reader,    \* a read-only transaction: the snapshot it holds
    blocks,    \* the block-map keys of the store: key bytes -> value
    bop,       \* the last call that wrote block keys: [op, folder]
    fixc,      \* the BlockFinder.Fix call in progress or last made
    iter,      \* the last BlockFinder.Iterate call and what it did
    ins,       \* the last insertFile call: what it was given and what it returned
    errp,      \* the error slot of a function: its named return value
    wcall,     \* the last call of wrapError or wrapErrorPointer
    built,     \* how the error in the slot was made: the error returned and the descriptions added
    ocall,     \* the last call of a method of the error in the slot
    disk,      \* the file system at the folder's path: the path and the marker in it
    flog       \* the calls made on the folder and the file system, in order

dbvars == <<db, size, batch, last, undo, panicked, ops>>
clockvars == <<clast, mut, pc, cur, ticks>>
txvars == <<tx, reader>>
blockvars == <<blocks, bop, fixc, iter>>
wrapvars == <<errp, wcall, built, ocall>>
foldervars == <<disk, flog>>
callvars == <<ins, errp, wcall, built, ocall, disk, flog>>
auxvars == <<tx, reader, blocks, bop, fixc, iter, ins, errp, wcall, built, ocall, disk, flog>>
vars == <<db, size, batch, last, undo, panicked, ops, clast, mut, pc, cur, ticks,
          tx, reader, blocks, bop, fixc, iter, ins, errp, wcall, built, ocall, disk, flog>>

----------------------------------------------------------------------------
(* Bounds *)

MaxCounter == 2
MaxOps == 3

Devices == {"A", "B", "C"}
Names == {"x"}
Counter == 0..MaxCounter

\* A version vector over two counter IDs; a missing counter is 0, so the
\* empty vector is <<0, 0>>.
Vectors == Counter \X Counter
NoVersion == <<0, 0>>

\* The vectors of announced files: a file that was scanned or received has
\* been changed by some device, so its vector holds a counter.
Versions == Vectors \ {NoVersion}

----------------------------------------------------------------------------
(* protocol.Vector and protocol.FileInfo *)

Equal == "Equal"
Greater == "Greater"
Lesser == "Lesser"
ConcurrentLesser == "ConcurrentLesser"
ConcurrentGreater == "ConcurrentGreater"

\* a.Compare(b): the ordering of a relative to b.
Compare(a, b) ==
    IF a = b THEN Equal
    ELSE IF \A i \in 1..2 : a[i] >= b[i] THEN Greater
    ELSE IF \A i \in 1..2 : a[i] <= b[i] THEN Lesser
    ELSE IF a[1] > b[1] THEN ConcurrentGreater
    ELSE ConcurrentLesser

Concurrent(a, b) == Compare(a, b) \in {ConcurrentLesser, ConcurrentGreater}

\* The files that exist: a version vector identifies one change of a file, so
\* every device announcing version v of a name announces the same FileInfo.
\* The second change by counter ID 1 is a delete; sizes differ per version.
FileOf(n, v) ==
    [name |-> n, version |-> v,
     deleted |-> (v[1] = 2),
     modified |-> v[1],
     size |-> 1 + v[1] + 4 * v[2]]

Files == {FileOf(n, v) : n \in Names, v \in Versions}

\* f.WinsConflict(other): the file that is not deleted wins, then the later
\* modification time, then the byte order of the version vectors.
WinsConflict(f, other) ==
    IF ~f.deleted /\ other.deleted THEN TRUE
    ELSE IF f.deleted /\ ~other.deleted THEN FALSE
    ELSE IF f.modified > other.modified THEN TRUE
    ELSE IF f.modified < other.modified THEN FALSE
    ELSE Compare(f.version, other.version) = ConcurrentGreater

----------------------------------------------------------------------------
(* sizeTracker *)

ZeroCounters == [files |-> 0, deletes |-> 0, bytes |-> 0]

addFile(c, f) ==
    IF f.deleted THEN [c EXCEPT !.deletes = @ + 1]
    ELSE [c EXCEPT !.files = @ + 1, !.bytes = @ + f.size]

removeFile(c, f) ==
    IF f.deleted THEN [c EXCEPT !.deletes = @ - 1]
    ELSE [c EXCEPT !.files = @ - 1, !.bytes = @ - f.size]

EmptySize ==
    [global |-> ZeroCounters,
     insync |-> [d \in Devices |-> ZeroCounters],
     need |-> [d \in Devices |-> ZeroCounters]]

insyncAdd(s, d, f) == [s EXCEPT !.insync[d] = addFile(@, f)]
insyncRemove(s, d, f) == [s EXCEPT !.insync[d] = removeFile(@, f)]
globalAdd(s, f) == [s EXCEPT !.global = addFile(@, f)]
globalRemove(s, f) == [s EXCEPT !.global = removeFile(@, f)]

----------------------------------------------------------------------------
(* The store, a snapshot of it, and a write batch *)

EmptyStore == [dev |-> <<>>, glob |-> <<>>]

NoFile == [name |-> "", version |-> NoVersion, deleted |-> FALSE, modified |-> 0, size |-> 0]

PutDev(d, f) == [op |-> "put", kind |-> "dev", device |-> d, name |-> f.name, file |-> f, versions |-> <<>>]
PutGlobal(n, vl) == [op |-> "put", kind |-> "glob", device |-> "", name |-> n, file |-> NoFile, versions |-> vl]
DeleteGlobal(n) == [op |-> "delete", kind |-> "glob", device |-> "", name |-> n, file |-> NoFile, versions |-> <<>>]

MapPut(m, k, v) == [x \in (DOMAIN m) \cup {k} |-> IF x = k THEN v ELSE m[x]]
MapDelete(m, k) == [x \in (DOMAIN m) \ {k} |-> m[x]]

ApplyWrite(s, w) ==
    IF w.kind = "dev"
    THEN [s EXCEPT !.dev = MapPut(@, <<w.device, w.name>>, w.file)]
    ELSE IF w.op = "put"
    THEN [s EXCEPT !.glob = MapPut(@, w.name, w.versions)]
    ELSE [s EXCEPT !.glob = MapDelete(@, w.name)]

RECURSIVE Write(_, _)
Write(s, b) == IF b = <<>> THEN s ELSE Write(ApplyWrite(s, Head(b)), Tail(b))

\* readOnlyTransaction.getFile on snapshot snap
hasFile(snap, d, n) == <<d, n>> \in DOMAIN snap.dev
getFile(snap, d, n) == IF hasFile(snap, d, n) THEN snap.dev[<<d, n>>] ELSE NoFile

hasGlobal(snap, n) == n \in DOMAIN snap.glob
getGlobal(snap, n) == IF hasGlobal(snap, n) THEN snap.glob[n] ELSE <<>>

----------------------------------------------------------------------------
(* readWriteTransaction: insertFile, updateGlobal, removeFromGlobal *)

insertVersion(vl, i, v) == SubSeq(vl, 1, i - 1) \o <<v>> \o SubSeq(vl, i, Len(vl))
removeVersion(vl, i) == SubSeq(vl, 1, i - 1) \o SubSeq(vl, i + 1, Len(vl))

\* the first index whose entry belongs to device, 0 when there is none
deviceIndex(vl, device) ==
    IF \E i \in 1..Len(vl) : vl[i].device = device
    THEN CHOOSE i \in 1..Len(vl) :
            /\ vl[i].device = device
            /\ \A j \in 1..(i - 1) : vl[j].device # device
    ELSE 0

\* the loop that looks for the device's entry: the list without the first
\* entry of device
withoutDeviceMutant(vl, device) == vl
withoutDevice(vl, device) ==
    LET i == deviceIndex(vl, device) IN
    IF i # 0 THEN removeVersion(vl, i) ELSE vl

\* updateGlobal's early return: the list already holds exactly this version
\* for the device
alreadyListedMutant(vl, device, version) == FALSE
alreadyListed(vl, device, version) ==
    LET i == deviceIndex(vl, device) IN
    i # 0 /\ Compare(vl[i].version, version) = Equal

\* insertFile: the write of the file under the device key.
insertFileMutant(device, file) == <<>>
insertFile(device, file) == <<PutDev(device, file)>>

\* The loop of updateGlobal that looks for the insert position, from index i.
\* pos = Len(vl) + 1 when no position qualifies (append).
RECURSIVE findPositionMutant(_, _, _, _)
findPositionMutant(snap, vl, file, i) ==
    IF i > Len(vl) THEN [pos |-> Len(vl) + 1, panic |-> FALSE]
    ELSE LET c == Compare(vl[i].version, file.version) IN
         IF c \in {Equal, Lesser, ConcurrentLesser, ConcurrentGreater}
         THEN [pos |-> i, panic |-> FALSE]
         ELSE findPositionMutant(snap, vl, file, i + 1)

\* the loop with the check of getFile's ok left out
RECURSIVE findPositionUnchecked(_, _, _, _)
findPositionUnchecked(snap, vl, file, i) ==
    IF i > Len(vl) THEN [pos |-> Len(vl) + 1, panic |-> FALSE]
    ELSE LET c == Compare(vl[i].version, file.version) IN
         IF c \in {Equal, Lesser} THEN [pos |-> i, panic |-> FALSE]
         ELSE IF c \in {ConcurrentLesser, ConcurrentGreater}
                 /\ WinsConflict(file, getFile(snap, vl[i].device, file.name))
         THEN [pos |-> i, panic |-> FALSE]
         ELSE findPositionUnchecked(snap, vl, file, i + 1)

RECURSIVE findPosition(_, _, _, _)
findPosition(snap, vl, file, i) ==
    IF i > Len(vl) THEN [pos |-> Len(vl) + 1, panic |-> FALSE]
    ELSE LET c == Compare(vl[i].version, file.version) IN
         IF c \in {Equal, Lesser} THEN [pos |-> i, panic |-> FALSE]
         ELSE IF c \in {ConcurrentLesser, ConcurrentGreater}
         THEN IF ~hasFile(snap, vl[i].device, file.name)
              THEN [pos |-> i, panic |-> TRUE]
              ELSE IF WinsConflict(file, getFile(snap, vl[i].device, file.name))
              THEN [pos |-> i, panic |-> FALSE]
              ELSE findPosition(snap, vl, file, i + 1)
         ELSE findPosition(snap, vl, file, i + 1)

\* The devices of the leading entries of vl whose version equals ver.
RECURSIVE headCohort(_, _)
headCohort(vl, ver) ==
    IF vl = <<>> \/ Compare(Head(vl).version, ver) # Equal THEN <<>>
    ELSE <<Head(vl).device>> \o headCohort(Tail(vl), ver)

RECURSIVE insyncRemoveAll(_, _, _)
insyncRemoveAll(s, ds, f) ==
    IF ds = <<>> THEN s ELSE insyncRemoveAll(insyncRemove(s, Head(ds), f), Tail(ds), f)

RECURSIVE insyncAddAll(_, _, _)
insyncAddAll(s, ds, f) ==
    IF ds = <<>> THEN s ELSE insyncAddAll(insyncAdd(s, Head(ds), f), Tail(ds), f)

updateGlobalSizeFixup(snap, oldV, newV, device, file, sz) ==
    IF Len(oldV) = 0
    THEN [size |-> globalAdd(insyncAdd(sz, device, file), file), panic |-> FALSE]
    ELSE LET oldGlobalVersion == oldV[1].version
             newGlobalVersion == newV[1].version
         IN  IF Compare(oldGlobalVersion, newGlobalVersion) = Equal
             THEN IF Compare(oldGlobalVersion, file.version) = Equal
                  THEN [size |-> insyncAdd(sz, device, file), panic |-> FALSE]
                  ELSE [size |-> sz, panic |-> FALSE]
             ELSE IF ~hasFile(snap, oldV[1].device, file.name)
             THEN [size |-> sz, panic |-> TRUE]
             ELSE LET oldGlobal == getFile(snap, oldV[1].device, file.name)
                      s1 == insyncRemoveAll(sz, headCohort(oldV, oldGlobalVersion), oldGlobal)
                      s2 == insyncAddAll(s1, headCohort(newV, newGlobalVersion), file)
                  IN  [size |-> globalAdd(globalRemove(s2, oldGlobal), file), panic |-> FALSE]

\* updateGlobal on snapshot snap: what it returns, the writes it adds to the
\* batch, and the size tracker it leaves.
updateGlobal(snap, device, file, sz) ==
    LET oldVersionList == getGlobal(snap, file.name)
        removed == withoutDevice(oldVersionList, device)
        nv == [device |-> device, version |-> file.version]
        p == findPosition(snap, removed, file, 1)
        newVersionList == insertVersion(removed, p.pos, nv)
        fix == updateGlobalSizeFixup(snap, oldVersionList, newVersionList, device, file, sz)
    IN  IF alreadyListed(oldVersionList, device, file.version)
        THEN [changed |-> FALSE, writes |-> <<>>, size |-> sz, panic |-> FALSE]
        ELSE IF p.panic
        THEN [changed |-> FALSE, writes |-> <<>>, size |-> sz, panic |-> TRUE]
        ELSE [changed |-> TRUE, writes |-> <<PutGlobal(file.name, newVersionList)>>,
              size |-> fix.size, panic |-> fix.panic]

\* removeGlobalSizeFixup when the head version did not change: only the
\* removed entry is accounted, if it was at the head version.
unchangedGlobalRemovedMutant(sz, device, oldGlobal, oldGlobalVersion, removedVersion) ==
    insyncRemove(sz, device, oldGlobal)
unchangedGlobalRemoved(sz, device, oldGlobal, oldGlobalVersion, removedVersion) ==
    IF Compare(oldGlobalVersion, removedVersion) = Equal
    THEN insyncRemove(sz, device, oldGlobal)
    ELSE sz

removeGlobalSizeFixup(snap, oldV, newV, device, name, sz) ==
    IF Len(oldV) = 0 THEN [size |-> sz, panic |-> FALSE]
    ELSE IF ~hasFile(snap, oldV[1].device, name) THEN [size |-> sz, panic |-> TRUE]
    ELSE LET oldGlobal == getFile(snap, oldV[1].device, name) IN
         IF Len(newV) = 0
         THEN [size |-> globalRemove(insyncRemove(sz, device, oldGlobal), oldGlobal), panic |-> FALSE]
         ELSE LET oldGlobalVersion == oldV[1].version
                  newGlobalVersion == newV[1].version
                  i == deviceIndex(oldV, device)
                  removedVersion == IF i # 0 THEN oldV[i].version ELSE NoVersion
              IN  IF Compare(oldGlobalVersion, newGlobalVersion) = Equal
                  THEN [size |-> unchangedGlobalRemoved(sz, device, oldGlobal,
                                                        oldGlobalVersion, removedVersion),
                        panic |-> FALSE]
                  ELSE LET s1 == insyncRemoveAll(sz, headCohort(oldV, oldGlobalVersion), oldGlobal) IN
                       IF ~hasFile(snap, newV[1].device, name)
                       THEN [size |-> s1, panic |-> TRUE]
                       ELSE LET newGlobal == getFile(snap, newV[1].device, name)
                                s2 == insyncAddAll(s1, headCohort(newV, newGlobalVersion), newGlobal)
                            IN  [size |-> globalAdd(globalRemove(s2, oldGlobal), newGlobal),
                                 panic |-> FALSE]

\* The write removeFromGlobal makes for the new version list.
removeWriteMutant(name, newVersions) == PutGlobal(name, newVersions)
removeWrite(name, newVersions) ==
    IF Len(newVersions) = 0 THEN DeleteGlobal(name) ELSE PutGlobal(name, newVersions)

\* svl, err := t.Get(gk, nil); if err != nil { return }
missingGlobalMutant(sz) == [writes |-> <<>>, size |-> sz, panic |-> TRUE]
missingGlobal(sz) == [writes |-> <<>>, size |-> sz, panic |-> FALSE]

removeFromGlobal(snap, device, name, sz) ==
    IF ~hasGlobal(snap, name) THEN missingGlobal(sz)
    ELSE LET oldVersions == getGlobal(snap, name)
             newVersions == withoutDevice(oldVersions, device)
             fix == removeGlobalSizeFixup(snap, oldVersions, newVersions, device, name, sz)
         IN  [writes |-> <<removeWrite(name, newVersions)>>, size |-> fix.size, panic |-> fix.panic]

----------------------------------------------------------------------------
(* Clock (the monotonic ticker) *)

\* int64 scaled down: the ticker's integer type holds MinInt64..MaxInt64
MaxInt64 == 3
MinInt64 == -MaxInt64 - 1
Int64 == MinInt64..MaxInt64
MaxTicks == 3
Callers == {1, 2}

\* c.last++ on an int64
increment(x) == IF x = MaxInt64 THEN MinInt64 ELSE x + 1

\* the body of Tick after the lock is taken and time.Now().UnixNano() is read
nextLastMutant(c, l) == IF c >= l THEN c ELSE increment(l)
nextLast(c, l) == IF c > l THEN c ELSE increment(l)

ClockInit ==
    /\ clast = 0
    /\ mut = 0
    /\ pc = [c \in Callers |-> "idle"]
    /\ cur = [c \in Callers |-> 0]
    /\ ticks = <<>>

\* c.mut.Lock()
TickLock(c) ==
    /\ pc[c] = "idle"
    /\ mut = 0
    /\ Len(ticks) + 1 <= MaxTicks
    /\ mut' = c
    /\ pc' = [pc EXCEPT ![c] = "locked"]
    /\ UNCHANGED <<clast, cur, ticks>>

\* cur := time.Now().UnixNano(): the wall clock may show anything
TickNow(c) ==
    /\ pc[c] = "locked"
    /\ \E now \in Int64 : cur' = [cur EXCEPT ![c] = now]
    /\ pc' = [pc EXCEPT ![c] = "read"]
    /\ UNCHANGED <<clast, mut, ticks>>

\* if cur > c.last { c.last = cur } else { c.last++ }
TickAdvance(c) ==
    /\ pc[c] = "read"
    /\ clast' = nextLast(cur[c], clast)
    /\ pc' = [pc EXCEPT ![c] = "advanced"]
    /\ UNCHANGED <<mut, cur, ticks>>

\* return c.last, with the deferred c.mut.Unlock()
TickReturn(c) ==
    /\ pc[c] = "advanced"
    /\ ticks' = Append(ticks, clast)
    /\ mut' = 0
    /\ pc' = [pc EXCEPT ![c] = "idle"]
    /\ UNCHANGED <<clast, cur>>

----------------------------------------------------------------------------
(* The index: every call runs in a read-write transaction of its own that  *)
(* is opened on the committed store and closed (written) after the call.   *)

NoUndo == [stage |-> "none", device |-> "", name |-> "", glob |-> <<>>, size |-> EmptySize]
NoCall == [op |-> "none", device |-> "", name |-> "", version |-> NoVersion,
           changed |-> FALSE, fresh |-> FALSE]

DbInit ==
    /\ db = EmptyStore
    /\ size = EmptySize
    /\ batch = <<>>
    /\ last = NoCall
    /\ undo = NoUndo
    /\ panicked = FALSE
    /\ ops = 0

\* newReadWriteTransaction; insertFile; updateGlobal; close
Update(device, file) ==
    LET snap == db
        r == updateGlobal(snap, device, file, size)
        b == insertFile(device, file) \o r.writes
        fresh == deviceIndex(getGlobal(snap, file.name), device) = 0
    IN  /\ ~panicked
        /\ ops < MaxOps
        /\ ops' = ops + 1
        /\ size' = r.size
        /\ panicked' = r.panic
        /\ batch' = IF r.panic THEN <<>> ELSE b
        /\ db' = IF r.panic THEN db ELSE Write(db, b)
        /\ last' = [op |-> "update", device |-> device, name |-> file.name,
                    version |-> file.version, changed |-> r.changed, fresh |-> fresh]
        /\ undo' = IF fresh
                   THEN [stage |-> "updated", device |-> device, name |-> file.name,
                         glob |-> db.glob, size |-> size]
                   ELSE NoUndo

\* newReadWriteTransaction; removeFromGlobal; close
Remove(device, name) ==
    LET snap == db
        r == removeFromGlobal(snap, device, name, size)
    IN  /\ ~panicked
        /\ ops < MaxOps
        /\ ops' = ops + 1
        /\ size' = r.size
        /\ panicked' = r.panic
        /\ batch' = IF r.panic THEN <<>> ELSE r.writes
        /\ db' = IF r.panic THEN db ELSE Write(db, r.writes)
        /\ last' = [op |-> "remove", device |-> device, name |-> name,
                    version |-> NoVersion, changed |-> FALSE,
                    fresh |-> deviceIndex(getGlobal(snap, name), device) = 0]
        /\ undo' = IF undo.stage = "updated" /\ undo.device = device /\ undo.name = name
                   THEN [undo EXCEPT !.stage = "removed"]
                   ELSE NoUndo

----------------------------------------------------------------------------
(* A read-write transaction step by step, and a concurrent read-only one *)

\* Scaled: the number of batched records above which checkFlush writes.
batchFlushSize == 3

\* the files one transaction is given, in all, and the versions they have
MaxTxFiles == 3
TxVersions == {<<1, 0>>, <<0, 1>>, <<1, 1>>, <<2, 0>>}
TxFiles == {FileOf(n, v) : n \in Names, v \in TxVersions}

NoTx == [state |-> "none", device |-> "", snap |-> EmptyStore, batch |-> <<>>,
         pre |-> EmptyStore, writes |-> <<>>, applied |-> <<>>, flushed |-> FALSE,
         called |-> FALSE, view |-> EmptyStore]
NoReader == [open |-> FALSE, store |-> EmptyStore]

TxInit ==
    /\ tx = NoTx
    /\ reader = NoReader

\* newReadOnlyTransaction: db.GetSnapshot()
newReadOnlyTransaction(store) == store

\* readWriteTransaction.close: t.db.Write(t.Batch, nil)
closeMutant(store, b) == IF b = <<>> THEN store ELSE Write(store, <<Head(b)>>)
close(store, b) == Write(store, b)

\* t.Get and getFile(t, key) of a read-write transaction: the store they read
\* is the embedded snapshot
readsMutant(t, store) == Write(store, t.batch)
reads(t, store) == t.snap

\* the condition of checkFlush
mustFlushMutant(b) == TRUE
mustFlush(b) == Len(b) > batchFlushSize

\* t.Batch.Reset()
ResetMutant(b) == b
Reset(b) == <<>>

\* newReadWriteTransaction, by the holder of the folder's mutex
TxOpen(device) ==
    /\ ~panicked
    /\ tx.state # "open"
    /\ ~reader.open
    /\ ops < MaxTxFiles
    /\ tx' = [state |-> "open", device |-> device, snap |-> newReadOnlyTransaction(db),
              batch |-> <<>>, pre |-> db, writes |-> <<>>, applied |-> <<>>,
              flushed |-> FALSE, called |-> FALSE, view |-> EmptyStore]
    /\ UNCHANGED <<db, size, batch, last, undo, panicked, ops, reader>>

\* insertFile and updateGlobal for one file of the transaction: the reads go
\* to the snapshot, the writes to the batch
TxUpdateFile(file) ==
    LET r == updateGlobal(reads(tx, db), tx.device, file, size)
        b == insertFile(tx.device, file) \o r.writes
    IN  /\ ~panicked
        /\ tx.state = "open"
        /\ ops < MaxTxFiles
        /\ ops' = ops + 1
        /\ size' = r.size
        /\ panicked' = r.panic
        /\ tx' = IF r.panic THEN tx
                 ELSE [tx EXCEPT !.batch = @ \o b, !.writes = @ \o b,
                                 !.called = TRUE, !.view = reads(tx, db)]
        /\ UNCHANGED <<db, batch, last, undo, reader>>

\* checkFlush when the batch has grown over batchFlushSize
TxCheckFlush ==
    /\ ~panicked
    /\ tx.state = "open"
    /\ mustFlush(tx.batch)
    /\ db' = Write(db, tx.batch)
    /\ tx' = [tx EXCEPT !.batch = Reset(@), !.applied = @ \o tx.batch, !.flushed = TRUE]
    /\ UNCHANGED <<size, batch, last, undo, panicked, ops, reader>>

\* readWriteTransaction.close
TxClose ==
    /\ ~panicked
    /\ tx.state = "open"
    /\ db' = close(db, tx.batch)
    /\ batch' = tx.batch
    /\ tx' = [tx EXCEPT !.state = "closed", !.batch = <<>>, !.applied = @ \o tx.batch]
    /\ UNCHANGED <<size, last, undo, panicked, ops, reader>>

\* a reader opens a read-only transaction while the read-write transaction
\* runs or after it closed
ReaderOpen ==
    /\ tx.state # "none"
    /\ ~reader.open
    /\ reader' = [open |-> TRUE, store |-> newReadOnlyTransaction(db)]
    /\ UNCHANGED <<dbvars, tx>>

\* readOnlyTransaction.close
ReaderClose ==
    /\ reader.open
    /\ reader' = NoReader
    /\ UNCHANGED <<dbvars, tx>>

----------------------------------------------------------------------------
(* BlockMap and BlockFinder *)

\* The key layout, scaled: one byte stands for the 4 bytes of a folder ID and
\* one for the 32 bytes of a block hash.
KeyTypeBlock == 2
keyPrefixLen == 1
keyFolderLen == 1
keyHashLen == 1

\* Scaled: the number of batched records above which the batch is written.
maxBatchSize == 1

MaxBlockOps == 2
MaxFinderOps == 2

Folders == {"f", "g"}
Hashes == {1, 2}
Indexes == {0, 1}

\* file names as bytes: "x" and "d/y"
BlockNames == {<<120>>, <<100, 47, 121>>}

\* db.folderIdx.ID and db.nameIdx.ID: the IDs the names were given
FolderID(folder) == IF folder = "f" THEN 1 ELSE 2
NameID(name) == IF name = <<120>> THEN 1 ELSE 2

\* osutil.NativeFilename where the path separator is the backslash
PathSeparator == 92
NativeFilename(name) == [i \in DOMAIN name |-> IF name[i] = 47 THEN PathSeparator ELSE name[i]]

\* the files given to the block map: what they are and the hashes of their
\* blocks
BlockLists == {<<1>>, <<2>>, <<1, 2>>}
BlockFiles ==
    [name : BlockNames, kind : {"file", "directory", "deleted", "invalid"}, blocks : BlockLists]
IsRegular(file) == file.kind = "file"

\* the lists of files of one call: one file, or a deleted file and the
\* regular file that replaces it
FileLists ==
    {<<f>> : f \in BlockFiles}
    \cup {fs \in {<<f, g>> : f \in {h \in BlockFiles : h.kind = "deleted"},
                              g \in {h \in BlockFiles : h.kind = "file"}} :
             fs[1].name = fs[2].name}

\* the values stored under block keys: a marshalled blockmapList, or the four
\* big-endian bytes of a block index
ListValue(locations) == [kind |-> "list", locations |-> locations, index |-> 0]
IndexValue(index) == [kind |-> "index", locations |-> <<>>, index |-> index]

\* binary.BigEndian.Uint32(value): of a marshalled list these bytes are its
\* element count
decodeIndex(value) == IF value.kind = "index" THEN value.index ELSE Len(value.locations)

BlockPut(key, value) == [op |-> "put", key |-> key, value |-> value]
BlockDelete(key) == [op |-> "delete", key |-> key, value |-> IndexValue(0)]

\* db.Write(batch, nil)
RECURSIVE writeBatch(_, _)
writeBatch(store, b) ==
    IF b = <<>> THEN store
    ELSE writeBatch(IF Head(b).op = "put" THEN MapPut(store, Head(b).key, Head(b).value)
                    ELSE MapDelete(store, Head(b).key),
                    Tail(b))

\* blockKeyInto(o, hash, folder, file)
blockKeyInto(hash, folder, file) == <<KeyTypeBlock, folder>> \o hash \o file

\* blockKeyName(data)
blockKeyLen == keyPrefixLen + keyFolderLen + keyHashLen
blockKeyName(data) == SubSeq(data, blockKeyLen + 1, Len(data))

\* copy(key[1:], block.Hash) on the key buffer
copyHash(key, hash) ==
    [i \in DOMAIN key |-> IF i >= 2 /\ i - 1 <= Len(hash) THEN hash[i - 1] ELSE key[i]]

\* key := make([]byte, 33); key[0] = KeyTypeBlock
NewKey == <<KeyTypeBlock>> \o [i \in 1..keyHashLen |-> 0]

\* db.Get(key) and bl.UnmarshalXDR
getLocations(store, key) ==
    IF key \in DOMAIN store THEN store[key].locations ELSE <<>>

\* the per-block loop of Add: the list stored under the hash, with this
\* location appended
RECURSIVE addBlocks(_, _, _, _, _, _)
addBlocks(store, b, key, folderID, file, i) ==
    IF i > Len(file.blocks) THEN [batch |-> b, key |-> key]
    ELSE LET k == copyHash(key, <<file.blocks[i]>>)
             bl == Append(getLocations(store, k),
                          [folderID |-> folderID, nameID |-> NameID(file.name), blockIdx |-> i - 1])
         IN  addBlocks(store, Append(b, BlockPut(k, ListValue(bl))), k, folderID, file, i + 1)

\* BlockMap.Add
RECURSIVE addFiles(_, _, _, _, _)
addFiles(store, b, key, folderID, files) ==
    IF files = <<>> THEN writeBatch(store, b)
    ELSE LET over == Len(b) > maxBatchSize
             s1 == IF over THEN writeBatch(store, b) ELSE store
             b1 == IF over THEN <<>> ELSE b
             file == Head(files)
         IN  IF ~IsRegular(file) THEN addFiles(s1, b1, key, folderID, Tail(files))
             ELSE LET r == addBlocks(s1, b1, key, folderID, file, 1)
                  IN  addFiles(s1, r.batch, r.key, folderID, Tail(files))

\* the list without its first location of this name and folder
RECURSIVE withoutLocation(_, _, _)
withoutLocation(bl, nameID, folderID) ==
    IF bl = <<>> THEN <<>>
    ELSE IF Head(bl).nameID = nameID /\ Head(bl).folderID = folderID THEN Tail(bl)
    ELSE <<Head(bl)>> \o withoutLocation(Tail(bl), nameID, folderID)

\* the per-block loop of Update for a regular file
RECURSIVE updateBlocks(_, _, _, _, _, _)
updateBlocks(store, b, key, folderID, file, i) ==
    IF i > Len(file.blocks) THEN [batch |-> b, key |-> key]
    ELSE LET k == copyHash(key, <<file.blocks[i]>>)
             bl == withoutLocation(getLocations(store, k), NameID(file.name), folderID)
         IN  updateBlocks(store, Append(b, BlockPut(k, ListValue(bl))), k, folderID, file, i + 1)

\* the per-block loop that deletes the block keys of a file
RECURSIVE deleteBlocks(_, _, _, _, _)
deleteBlocks(b, key, folderID, file, i) ==
    IF i > Len(file.blocks) THEN [batch |-> b, key |-> key]
    ELSE LET k == blockKeyInto(<<file.blocks[i]>>, folderID, file.name)
         IN  deleteBlocks(Append(b, BlockDelete(k)), k, folderID, file, i + 1)

\* BlockMap.Update
RECURSIVE updateFiles(_, _, _, _, _)
updateFiles(store, b, key, folderID, files) ==
    IF files = <<>> THEN writeBatch(store, b)
    ELSE LET over == Len(b) > maxBatchSize
             s1 == IF over THEN writeBatch(store, b) ELSE store
             b1 == IF over THEN <<>> ELSE b
             file == Head(files)
         IN  IF file.kind = "directory" THEN updateFiles(s1, b1, key, folderID, Tail(files))
             ELSE LET r == IF file.kind \in {"deleted", "invalid"}
                           THEN deleteBlocks(b1, key, folderID, file, 1)
                           ELSE updateBlocks(s1, b1, key, folderID, file, 1)
                  IN  updateFiles(s1, r.batch, r.key, folderID, Tail(files))

\* BlockMap.Discard
RECURSIVE discardFiles(_, _, _, _, _)
discardFiles(store, b, key, folderID, files) ==
    IF files = <<>> THEN writeBatch(store, b)
    ELSE LET over == Len(b) > maxBatchSize
             s1 == IF over THEN writeBatch(store, b) ELSE store
             b1 == IF over THEN <<>> ELSE b
             r == deleteBlocks(b1, key, folderID, Head(files), 1)
         IN  discardFiles(s1, r.batch, r.key, folderID, Tail(files))

\* the order of keys in the store: bytewise
RECURSIVE KeyLess(_, _)
KeyLess(a, b) ==
    IF a = <<>> THEN b # <<>>
    ELSE IF b = <<>> THEN FALSE
    ELSE IF a[1] # b[1] THEN a[1] < b[1]
    ELSE KeyLess(Tail(a), Tail(b))

HasPrefix(k, prefix) == Len(k) >= Len(prefix) /\ SubSeq(k, 1, Len(prefix)) = prefix

RECURSIVE sortKeys(_)
sortKeys(S) ==
    IF S = {} THEN <<>>
    ELSE LET m == CHOOSE k \in S : \A o \in S \ {k} : KeyLess(k, o)
         IN  <<m>> \o sortKeys(S \ {m})

\* db.NewIterator(util.BytesPrefix(prefix), nil): the keys it will visit
NewIterator(store, prefix) == sortKeys({k \in DOMAIN store : HasPrefix(k, prefix)})

\* BlockMap.Drop: delete every key under the folder's prefix
RECURSIVE dropKeys(_, _, _)
dropKeys(store, b, keys) ==
    IF keys = <<>> THEN writeBatch(store, b)
    ELSE LET over == Len(b) > maxBatchSize
             s1 == IF over THEN writeBatch(store, b) ELSE store
             b1 == IF over THEN <<>> ELSE b
         IN  dropKeys(s1, Append(b1, BlockDelete(Head(keys))), Tail(keys))

dropFolder(store, folderID) ==
    dropKeys(store, <<>>,
             NewIterator(store, SubSeq(blockKeyInto(<<>>, folderID, <<>>), 1,
                                       keyPrefixLen + keyFolderLen)))

\* The iterator function is given as the number of the call at which it
\* returns true (0: never).
iterFn(n, acceptAt) == n = acceptAt

\* the test on iterFn's result inside Iterate's loop
stopIterateMutant(accepted) == FALSE
stopIterate(accepted) == accepted

\* the inner loop of Iterate over one folder's keys
RECURSIVE iterateKeys(_, _, _, _, _)
iterateKeys(store, folder, keys, calls, acceptAt) ==
    IF keys = <<>> THEN [calls |-> calls, found |-> FALSE, panic |-> FALSE]
    ELSE IF Len(Head(keys)) < blockKeyLen + 1
    THEN [calls |-> calls, found |-> FALSE, panic |-> TRUE]
    ELSE LET c == [folder |-> folder,
                   file |-> NativeFilename(blockKeyName(Head(keys))),
                   index |-> decodeIndex(store[Head(keys)])]
             cs == Append(calls, c)
         IN  IF stopIterate(iterFn(Len(cs), acceptAt))
             THEN [calls |-> cs, found |-> TRUE, panic |-> FALSE]
             ELSE iterateKeys(store, folder, Tail(keys), cs, acceptAt)

RECURSIVE iterateFolders(_, _, _, _, _)
iterateFolders(store, folders, hash, calls, acceptAt) ==
    IF folders = <<>> THEN [calls |-> calls, result |-> FALSE, panic |-> FALSE]
    ELSE LET r == iterateKeys(store, Head(folders),
                              NewIterator(store, blockKeyInto(<<hash>>, FolderID(Head(folders)), <<>>)),
                              calls, acceptAt)
         IN  IF r.panic THEN [calls |-> r.calls, result |-> FALSE, panic |-> TRUE]
             ELSE IF r.found THEN [calls |-> r.calls, result |-> TRUE, panic |-> FALSE]
             ELSE iterateFolders(store, Tail(folders), hash, r.calls, acceptAt)

\* BlockFinder.Iterate: the calls of iterFn it makes and what it returns
Iterate(store, folders, hash, acceptAt) == iterateFolders(store, folders, hash, <<>>, acceptAt)

\* the batch of BlockFinder.Fix
fixBatchMutant(folderID, file, index, oldHash, newHash) ==
    <<BlockPut(blockKeyInto(<<newHash>>, folderID, file), IndexValue(index))>>
fixBatch(folderID, file, index, oldHash, newHash) ==
    <<BlockDelete(blockKeyInto(<<oldHash>>, folderID, file)),
      BlockPut(blockKeyInto(<<newHash>>, folderID, file), IndexValue(index))>>

NoBlockOp == [op |-> "none", folder |-> ""]
NoFix == [pc |-> "idle", folder |-> "", file |-> <<>>, index |-> 0, oldHash |-> 0, newHash |-> 0,
          batch |-> <<>>, wasOld |-> FALSE, wasNew |-> FALSE]
NoIterate == [folders |-> <<>>, hash |-> 0, acceptAt |-> 0, calls |-> <<>>, result |-> FALSE,
              listing |-> <<>>]

BlockInit ==
    /\ blocks = <<>>
    /\ bop = NoBlockOp
    /\ fixc = NoFix
    /\ iter = NoIterate

\* the location (folder, file) is found under hash: Iterate offers it
FoundUnder(store, folder, file, hash) ==
    LET cs == Iterate(store, <<folder>>, hash, 0).calls IN
    \E i \in 1..Len(cs) : cs[i].file = NativeFilename(file)

BlockMapAdd(folder, files) ==
    /\ ~panicked /\ fixc.pc # "built" /\ iter = NoIterate /\ ops < MaxBlockOps
    /\ ops' = ops + 1
    /\ blocks' = addFiles(blocks, <<>>, NewKey, FolderID(folder), files)
    /\ bop' = [op |-> "add", folder |-> folder]
    /\ fixc' = NoFix
    /\ UNCHANGED <<db, size, batch, last, undo, panicked, iter>>

BlockMapUpdate(folder, files) ==
    /\ ~panicked /\ fixc.pc # "built" /\ iter = NoIterate /\ ops < MaxBlockOps
    /\ ops' = ops + 1
    /\ blocks' = updateFiles(blocks, <<>>, NewKey, FolderID(folder), files)
    /\ bop' = [op |-> "update", folder |-> folder]
    /\ fixc' = NoFix
    /\ UNCHANGED <<db, size, batch, last, undo, panicked, iter>>

BlockMapDiscard(folder, files) ==
    /\ ~panicked /\ fixc.pc # "built" /\ iter = NoIterate /\ ops < MaxBlockOps
    /\ ops' = ops + 1
    /\ blocks' = discardFiles(blocks, <<>>, <<>>, FolderID(folder), files)
    /\ bop' = [op |-> "discard", folder |-> folder]
    /\ fixc' = NoFix
    /\ UNCHANGED <<db, size, batch, last, undo, panicked, iter>>

BlockMapDrop(folder) ==
    /\ ~panicked /\ fixc.pc # "built" /\ iter = NoIterate /\ ops < MaxBlockOps
    /\ ops' = ops + 1
    /\ blocks' = dropFolder(blocks, FolderID(folder))
    /\ bop' = [op |-> "drop", folder |-> folder]
    /\ fixc' = NoFix
    /\ UNCHANGED <<db, size, batch, last, undo, panicked, iter>>

\* BlockFinder.Fix up to its db.Write: the batch is built
BlockFinderFix(folder, file, index, oldHash, newHash) ==
    /\ ~panicked /\ fixc.pc # "built" /\ iter = NoIterate /\ ops < MaxBlockOps
    /\ ops' = ops + 1
    /\ fixc' = [pc |-> "built", folder |-> folder, file |-> file, index |-> index,
               oldHash |-> oldHash, newHash |-> newHash,
               batch |-> fixBatch(FolderID(folder), file, index, oldHash, newHash),
               wasOld |-> FoundUnder(blocks, folder, file, oldHash),
               wasNew |-> FoundUnder(blocks, folder, file, newHash)]
    /\ UNCHANGED <<db, size, batch, last, undo, panicked, blocks, bop, iter>>

\* BlockFinder.Fix: f.db.Write(batch, nil)
BlockFinderFixWrite ==
    /\ ~panicked /\ fixc.pc = "built" /\ iter = NoIterate
    /\ blocks' = writeBatch(blocks, fixc.batch)
    /\ fixc' = [fixc EXCEPT !.pc = "done", !.batch = <<>>]
    /\ bop' = [op |-> "fix", folder |-> fixc.folder]
    /\ UNCHANGED <<db, size, batch, last, undo, panicked, ops, iter>>

\* BlockFinder.Iterate, by a reader, at any time. A history is followed up to
\* the read it records: the read changes nothing that a later call depends on.
BlockFinderIterate(folders, hash, acceptAt) ==
    LET r == Iterate(blocks, folders, hash, acceptAt) IN
    /\ ~panicked
    /\ iter = NoIterate
    /\ panicked' = r.panic
    /\ iter' = [folders |-> folders, hash |-> hash, acceptAt |-> acceptAt,
                calls |-> r.calls, result |-> r.result,
                listing |-> Iterate(blocks, folders, hash, 0).calls]
    /\ UNCHANGED <<db, size, batch, last, undo, ops, blocks, bop, fixc>>

FolderLists == {<<>>, <<"f">>, <<"f", "g">>, <<"g", "f">>}

\* the calls that write or delete keys of the layout Iterate reads, and Iterate
FinderNext ==
    \/ \E fo \in Folders, fs \in {<<f>> : f \in {h \in BlockFiles : IsRegular(h)}} :
          (ops < MaxFinderOps /\ BlockMapDiscard(fo, fs)) /\ UNCHANGED <<clockvars, txvars, callvars>>
    \/ \E fo \in Folders :
          (ops < MaxFinderOps /\ BlockMapDrop(fo)) /\ UNCHANGED <<clockvars, txvars, callvars>>
    \/ \E fo \in Folders, n \in BlockNames, i \in Indexes, oh \in Hashes, nh \in Hashes :
          (ops < MaxFinderOps /\ BlockFinderFix(fo, n, i, oh, nh)) /\ UNCHANGED <<clockvars, txvars, callvars>>
    \/ BlockFinderFixWrite /\ UNCHANGED <<clockvars, txvars, callvars>>
    \/ \E fl \in FolderLists, h \in Hashes, a \in 0..2 :
          BlockFinderIterate(fl, h, a) /\ UNCHANGED <<clockvars, txvars, callvars>>


BlockNext ==
    \/ \E fo \in Folders, fs \in FileLists :
          BlockMapAdd(fo, fs) /\ UNCHANGED <<clockvars, txvars, callvars>>
    \/ \E fo \in Folders, fs \in FileLists :
          BlockMapUpdate(fo, fs) /\ UNCHANGED <<clockvars, txvars, callvars>>
    \/ \E fo \in Folders, fs \in FileLists :
          BlockMapDiscard(fo, fs) /\ UNCHANGED <<clockvars, txvars, callvars>>
    \/ \E fo \in Folders : BlockMapDrop(fo) /\ UNCHANGED <<clockvars, txvars, callvars>>
    \/ \E fo \in Folders, n \in BlockNames, i \in Indexes, oh \in Hashes, nh \in Hashes :
          BlockFinderFix(fo, n, i, oh, nh) /\ UNCHANGED <<clockvars, txvars, callvars>>
    \/ BlockFinderFixWrite /\ UNCHANGED <<clockvars, txvars, callvars>>
    \/ \E fl \in FolderLists, h \in Hashes, a \in 0..2 :
          BlockFinderIterate(fl, h, a) /\ UNCHANGED <<clockvars, txvars, callvars>>

----------------------------------------------------------------------------
(* insertFile and the local version it stamps *)

MaxInserts == 2

\* the local versions a file is given to insertFile with
LocalVersions == 0..2

\* the file with its LocalVersion field
WithLocalVersion(file, localVersion) ==
    [k \in DOMAIN file \cup {"localVersion"} |->
        IF k = "localVersion" THEN localVersion ELSE file[k]]

\* if file.LocalVersion == 0 { file.LocalVersion = clock(0) }
stampLocalVersionMutant(localVersion, tick) == tick
stampLocalVersion(localVersion, tick) == IF localVersion = 0 THEN tick ELSE localVersion

\* clock(0): a tick of the process-wide ticker, for the wall clock's value now
clock(now, l) == nextLast(now, l)

NoInsert == [called |-> FALSE, device |-> "", name |-> "", given |-> 0, returned |-> 0,
             before |-> <<>>]

InsertInit == ins = NoInsert

\* insertFile in a transaction of its own: the file is stamped, put under the
\* device key and the transaction is closed. A tick is drawn under the
\* ticker's mutex.
InsertFile(device, file, localVersion) ==
    \E now \in Int64 :
        LET drawn == localVersion = 0
            tick == clock(now, clast)
            stamped == stampLocalVersion(localVersion, tick)
            b == insertFile(device, WithLocalVersion(file, stamped))
        IN  /\ ~panicked
            /\ ops < MaxInserts
            /\ drawn => (mut = 0 /\ Len(ticks) + 1 <= MaxTicks)
            /\ ops' = ops + 1
            /\ clast' = IF drawn THEN tick ELSE clast
            /\ ticks' = IF drawn THEN Append(ticks, tick) ELSE ticks
            /\ batch' = b
            /\ db' = Write(db, b)
            /\ ins' = [called |-> TRUE, device |-> device, name |-> file.name,
                       given |-> localVersion, returned |-> stamped, before |-> ticks]
            /\ UNCHANGED <<size, last, undo, panicked, mut, pc, cur>>

----------------------------------------------------------------------------
(* WrappedError *)

MaxWrapDepth == 2

\* error values: the nil error, errors made by errors.New, and WrappedErrors
Nil == [kind |-> "nil"]
New(text) == [kind |-> "error", text |-> text]
WrappedError(Wrapped, Description) ==
    [kind |-> "WrappedError", Wrapped |-> Wrapped, Description |-> Description]

Texts == {"foo", "bar"}
Descriptions == {"hey", "oi", ""}

\* the number of WrappedErrors around the innermost error
RECURSIVE wrapDepth(_)
wrapDepth(err) == IF err.kind = "WrappedError" THEN 1 + wrapDepth(err.Wrapped) ELSE 0

\* the errors wrapped at most n times
RECURSIVE ErrorsUpTo(_)
ErrorsUpTo(n) ==
    IF n = 0 THEN {Nil} \cup {New(t) : t \in Texts}
    ELSE ErrorsUpTo(n - 1)
         \cup {WrappedError(e, d) : e \in ErrorsUpTo(n - 1) \ {Nil}, d \in Descriptions}

\* wrapError(err, description)
wrapErrorMutant(err, description) == WrappedError(err, description)
wrapError(err, description) ==
    IF err = Nil THEN Nil ELSE WrappedError(err, description)

\* WrappedError.Original: the loop that unpacks the levels of wrapping
RECURSIVE originalLoop(_, _, _)
originalLoop(err, inner, ok) ==
    IF ok THEN originalLoop(inner.Wrapped, inner.Wrapped, inner.Wrapped.kind = "WrappedError")
    ELSE err

\* WrappedError.Original
OriginalMutant(e) == e.Wrapped
Original(e) == originalLoop(e.Wrapped, e.Wrapped, e.Wrapped.kind = "WrappedError")

\* WrappedError.Error, and the Error method of the other errors as the %v verb
\* of fmt.Sprintf calls it
RECURSIVE ErrorMutant(_)
ErrorMutant(e) ==
    IF e.kind = "WrappedError" THEN ErrorMutant(e.Wrapped) \o ": " \o e.Description
    ELSE IF e.kind = "error" THEN e.text
    ELSE "<nil>"

RECURSIVE Error(_)
Error(e) ==
    IF e.kind = "WrappedError" THEN e.Description \o ": " \o Error(e.Wrapped)
    ELSE IF e.kind = "error" THEN e.text
    ELSE "<nil>"

NoWrapCall == [op |-> "none", arg |-> Nil, description |-> "", result |-> Nil]
NoBuilt == [base |-> Nil, descriptions |-> <<>>]
NoMethodCall == [op |-> "none", original |-> Nil, text |-> ""]

WrapInit ==
    /\ errp = Nil
    /\ wcall = NoWrapCall
    /\ built = NoBuilt
    /\ ocall = NoMethodCall

\* a function with a named error return value returns err: the slot holds it
\* when the deferred calls run
ReturnError(err) ==
    /\ errp' = err
    /\ wcall' = [op |-> "return", arg |-> err, description |-> "", result |-> err]
    /\ built' = [base |-> err, descriptions |-> <<>>]
    /\ ocall' = NoMethodCall

\* wrapError(err, description), called directly; the caller keeps the result
WrapError(err, description) ==
    /\ wrapDepth(err) < MaxWrapDepth
    /\ wcall' = [op |-> "wrapError", arg |-> err, description |-> description,
                 result |-> wrapError(err, description)]
    /\ UNCHANGED <<errp, built, ocall>>

\* wrapErrorPointer(&err, description), deferred or not:
\* *errp = wrapError(*errp, description)
WrapErrorPointer(description) ==
    /\ wrapDepth(errp) < MaxWrapDepth
    /\ errp' = wrapError(errp, description)
    /\ wcall' = [op |-> "wrapErrorPointer", arg |-> errp, description |-> description,
                 result |-> wrapError(errp, description)]
    /\ built' = IF errp = Nil THEN built
                ELSE [built EXCEPT !.descriptions = Append(@, description)]
    /\ ocall' = NoMethodCall

\* err.(WrappedError).Original() on the error in the slot
CallOriginal ==
    /\ errp.kind = "WrappedError"
    /\ ocall' = [op |-> "Original", original |-> Original(errp), text |-> ""]
    /\ UNCHANGED <<errp, wcall, built>>

\* err.Error() on the error in the slot
CallError ==
    /\ errp # Nil
    /\ ocall' = [op |-> "Error", original |-> Nil, text |-> Error(errp)]
    /\ UNCHANGED <<errp, wcall, built>>

WrapNext ==
    \/ \E e \in ErrorsUpTo(0) :
          ReturnError(e) /\ UNCHANGED <<dbvars, clockvars, txvars, blockvars, ins, foldervars>>
    \/ \E e \in ErrorsUpTo(MaxWrapDepth), d \in Descriptions :
          WrapError(e, d) /\ UNCHANGED <<dbvars, clockvars, txvars, blockvars, ins, foldervars>>
    \/ \E d \in Descriptions :
          WrapErrorPointer(d) /\ UNCHANGED <<dbvars, clockvars, txvars, blockvars, ins, foldervars>>
    \/ CallOriginal /\ UNCHANGED <<dbvars, clockvars, txvars, blockvars, ins, foldervars>>
    \/ CallError /\ UNCHANGED <<dbvars, clockvars, txvars, blockvars, ins, foldervars>>

----------------------------------------------------------------------------
(* The folder's directory and its marker *)

MaxFolderOps == 4

\* error values of the file system calls and of CheckFolderHealth; NoError is
\* the nil error
NoError == "nil"
ENOENT == "no such file or directory"
ENOTDIR == "not a directory"
EACCES == "permission denied"
PathMissing == "folder path missing"
MarkerMissing == "folder marker missing"

\* what is at the folder's path (nothing, a directory, a regular file) and
\* whether the directory holds the marker .stfolder
PathKinds == {"absent", "dir", "file"}
NoDir == [path |-> "absent", marker |-> FALSE]
FileSystems == {t \in [path : PathKinds, marker : BOOLEAN] : t.marker => t.path = "dir"}

\* os.Stat(f.path): its error, and fi.IsDir()
statPath(t) == IF t.path = "absent" THEN ENOENT ELSE NoError
IsDir(t) == t.path = "dir"

\* os.Stat(filepath.Join(f.Path, MarkerName)): its error
statMarker(t) ==
    IF t.path = "absent" THEN ENOENT
    ELSE IF t.path = "file" THEN ENOTDIR
    ELSE IF t.marker THEN NoError ELSE ENOENT

\* os.IsNotExist(err)
IsNotExist(err) == err = ENOENT

\* Folder.CheckMarker
CheckMarker(t) == statMarker(t)

\* Folder.HasMarker
HasMarker(t) == statMarker(t) = NoError

\* Folder.CreateMarker; denied: the file system refuses the creation in an
\* existing directory
CreateMarkerMutant(t, denied) ==
    IF t.path = "dir" /\ ~denied THEN [fs |-> t, err |-> NoError]
    ELSE [fs |-> t, err |-> EACCES]
CreateMarker(t, denied) ==
    IF t.path = "absent" THEN [fs |-> t, err |-> ENOENT]
    ELSE IF t.path = "file" THEN [fs |-> t, err |-> ENOTDIR]
    ELSE IF denied THEN [fs |-> t, err |-> EACCES]
    ELSE [fs |-> [t EXCEPT !.marker = TRUE], err |-> NoError]

\* osutil.MkdirAll(path, 0700)
MkdirAll(t, denied) ==
    IF t.path = "dir" THEN [fs |-> t, err |-> NoError]
    ELSE IF t.path = "file" THEN [fs |-> t, err |-> ENOTDIR]
    ELSE IF denied THEN [fs |-> t, err |-> EACCES]
    ELSE [fs |-> [path |-> "dir", marker |-> FALSE], err |-> NoError]

\* CheckFolderHealth with emptyOK taken as true whatever it is
CheckFolderHealthMutant(t, emptyOK, mkdirDenied, createDenied) ==
    LET err == statPath(t) IN
    IF IsNotExist(err)
    THEN LET m == MkdirAll(t, mkdirDenied) IN
         IF m.err = NoError THEN CreateMarker(m.fs, createDenied) ELSE m
    ELSE IF ~HasMarker(t) THEN CreateMarker(t, createDenied)
    ELSE [fs |-> t, err |-> err]

\* CheckFolderHealth: the error it returns and the file system it leaves
CheckFolderHealth(t, emptyOK, mkdirDenied, createDenied) ==
    LET err == statPath(t) IN
    IF ~emptyOK
    THEN IF err # NoError \/ ~IsDir(t) THEN [fs |-> t, err |-> PathMissing]
         ELSE IF ~HasMarker(t) THEN [fs |-> t, err |-> MarkerMissing]
         ELSE [fs |-> t, err |-> err]
    ELSE IF IsNotExist(err)
    THEN LET m == MkdirAll(t, mkdirDenied) IN
         IF m.err = NoError THEN CreateMarker(m.fs, createDenied) ELSE m
    ELSE IF ~HasMarker(t) THEN CreateMarker(t, createDenied)
    ELSE [fs |-> t, err |-> err]

\* the folder's path does not exist yet
FolderInit ==
    /\ disk = NoDir
    /\ flog = <<>>

\* one more call in the log
Logged(op, emptyOK, err, post) ==
    /\ Len(flog) < MaxFolderOps
    /\ disk' = post
    /\ flog' = Append(flog, [op |-> op, emptyOK |-> emptyOK, err |-> err,
                             pre |-> disk, post |-> post])

\* os.Mkdir(path, 0777)
Mkdir ==
    IF disk.path = "absent"
    THEN Logged("Mkdir", FALSE, NoError, [path |-> "dir", marker |-> FALSE])
    ELSE Logged("Mkdir", FALSE, "file exists", disk)

\* os.RemoveAll(path)
RemoveAll == Logged("RemoveAll", FALSE, NoError, NoDir)

\* os.Remove(filepath.Join(path, MarkerName))
RemoveMarker ==
    Logged("RemoveMarker", FALSE, statMarker(disk), [disk EXCEPT !.marker = FALSE])

\* something else puts a regular file at the folder's path
PutFileAtPath ==
    /\ disk.path = "absent"
    /\ Logged("PutFileAtPath", FALSE, NoError, [path |-> "file", marker |-> FALSE])

CallCheckMarker == Logged("CheckMarker", FALSE, CheckMarker(disk), disk)

CallCreateMarker(denied) ==
    LET r == CreateMarker(disk, denied) IN Logged("CreateMarker", FALSE, r.err, r.fs)

CallCheckFolderHealth(emptyOK, mkdirDenied, createDenied) ==
    LET r == CheckFolderHealth(disk, emptyOK, mkdirDenied, createDenied) IN
    Logged("CheckFolderHealth", emptyOK, r.err, r.fs)

FolderNext ==
    \/ Mkdir /\ UNCHANGED <<dbvars, clockvars, txvars, blockvars, ins, wrapvars>>
    \/ RemoveAll /\ UNCHANGED <<dbvars, clockvars, txvars, blockvars, ins, wrapvars>>
    \/ RemoveMarker /\ UNCHANGED <<dbvars, clockvars, txvars, blockvars, ins, wrapvars>>
    \/ PutFileAtPath /\ UNCHANGED <<dbvars, clockvars, txvars, blockvars, ins, wrapvars>>
    \/ CallCheckMarker /\ UNCHANGED <<dbvars, clockvars, txvars, blockvars, ins, wrapvars>>
    \/ \E denied \in BOOLEAN :
          CallCreateMarker(denied)
          /\ UNCHANGED <<dbvars, clockvars, txvars, blockvars, ins, wrapvars>>
    \/ \E emptyOK \in BOOLEAN, mkdirDenied \in BOOLEAN, createDenied \in BOOLEAN :
          CallCheckFolderHealth(emptyOK, mkdirDenied, createDenied)
          /\ UNCHANGED <<dbvars, clockvars, txvars, blockvars, ins, wrapvars>>

Init ==
    DbInit /\ ClockInit /\ TxInit /\ BlockInit /\ InsertInit /\ WrapInit /\ FolderInit

Next ==
    \/ \E d \in Devices, f \in Files : Update(d, f) /\ UNCHANGED <<clockvars, auxvars>>
    \/ \E d \in Devices, n \in Names : Remove(d, n) /\ UNCHANGED <<clockvars, auxvars>>

Spec == Init /\ [][Next]_vars

ClockNext ==
    \/ \E c \in Callers : TickLock(c) /\ UNCHANGED <<dbvars, auxvars>>
    \/ \E c \in Callers : TickNow(c) /\ UNCHANGED <<dbvars, auxvars>>
    \/ \E c \in Callers : TickAdvance(c) /\ UNCHANGED <<dbvars, auxvars>>
    \/ \E c \in Callers : TickReturn(c) /\ UNCHANGED <<dbvars, auxvars>>

SpecClock == Init /\ [][ClockNext]_vars

TxNext ==
    \/ \E d \in Devices : TxOpen(d) /\ UNCHANGED <<clockvars, blockvars, callvars>>
    \/ \E f \in TxFiles : TxUpdateFile(f) /\ UNCHANGED <<clockvars, blockvars, callvars>>
    \/ TxCheckFlush /\ UNCHANGED <<clockvars, blockvars, callvars>>
    \/ TxClose /\ UNCHANGED <<clockvars, blockvars, callvars>>
    \/ ReaderOpen /\ UNCHANGED <<clockvars, blockvars, callvars>>
    \/ ReaderClose /\ UNCHANGED <<clockvars, blockvars, callvars>>

SpecTx == Init /\ [][TxNext]_vars

\* the transaction while another writer commits to the same store
OtherWriter == CHOOSE d \in Devices : TRUE
TxSharedNext ==
    \/ TxNext
    \/ \E f \in TxFiles :
          (tx.state = "open" /\ Update(OtherWriter, f))
              /\ UNCHANGED <<clockvars, auxvars>>

SpecTxShared == Init /\ [][TxSharedNext]_vars

SpecBlocks == Init /\ [][BlockNext]_vars

SpecFinder == Init /\ [][FinderNext]_vars

\* a caller deletes a device's record of a file without calling
\* removeFromGlobal first
DeleteRecord(device, name) ==
    /\ ~panicked
    /\ ops < MaxOps
    /\ hasFile(db, device, name)
    /\ ops' = ops + 1
    /\ db' = [db EXCEPT !.dev = MapDelete(db.dev, <<device, name>>)]
    /\ batch' = <<>>
    /\ last' = [op |-> "delete", device |-> device, name |-> name, version |-> NoVersion,
                changed |-> FALSE, fresh |-> FALSE]
    /\ undo' = NoUndo
    /\ UNCHANGED <<size, panicked>>

\* the index used by callers that may delete device records on their own
CorruptNext ==
    \/ \E d \in Devices, f \in Files : Update(d, f) /\ UNCHANGED <<clockvars, auxvars>>
    \/ \E d \in Devices, n \in Names : Remove(d, n) /\ UNCHANGED <<clockvars, auxvars>>
    \/ \E d \in Devices, n \in Names : DeleteRecord(d, n) /\ UNCHANGED <<clockvars, auxvars>>

SpecCorrupt == Init /\ [][CorruptNext]_vars

\* the files of an index that also holds a file whose version vector is
\* empty, and the operations on them
ReceivedVersions == {NoVersion, <<1, 0>>, <<0, 1>>}
ReceivedFiles == {FileOf(n, v) : n \in Names, v \in ReceivedVersions}

ReceivedNext ==
    \/ \E d \in Devices, f \in ReceivedFiles :
          Update(d, f) /\ UNCHANGED <<clockvars, auxvars>>
    \/ \E d \in Devices, n \in Names : Remove(d, n) /\ UNCHANGED <<clockvars, auxvars>>

SpecReceived == Init /\ [][ReceivedNext]_vars

\* insertFile by two devices' connections while another caller draws ticks
InsertDevices == {"A", "B"}
OtherCaller == CHOOSE c \in Callers : TRUE

InsertNext ==
    \/ \E d \in InsertDevices, n \in Names, lv \in LocalVersions :
          InsertFile(d, FileOf(n, <<1, 0>>), lv) /\ UNCHANGED <<txvars, blockvars, wrapvars, foldervars>>
    \/ TickLock(OtherCaller) /\ UNCHANGED <<dbvars, auxvars>>
    \/ TickNow(OtherCaller) /\ UNCHANGED <<dbvars, auxvars>>
    \/ TickAdvance(OtherCaller) /\ UNCHANGED <<dbvars, auxvars>>
    \/ TickReturn(OtherCaller) /\ UNCHANGED <<dbvars, auxvars>>

SpecInsert == Init /\ [][InsertNext]_vars

SpecWrap == Init /\ [][WrapNext]_vars

SpecFolder == Init /\ [][FolderNext]_vars

----------------------------------------------------------------------------
(* What the counters should be, computed by a full scan of the store *)

addCounters(a, b) ==
    [files |-> a.files + b.files, deletes |-> a.deletes + b.deletes, bytes |-> a.bytes + b.bytes]

HasList(n) == hasGlobal(db, n) /\ Len(db.glob[n]) > 0
HeadEntry(n) == db.glob[n][1]
HeadFile(n) == getFile(db, HeadEntry(n).device, n)

\* device d has an entry in n's version list whose version equals the head's
AtHead(d, n) ==
    /\ HasList(n)
    /\ \E i \in 1..Len(db.glob[n]) :
          /\ db.glob[n][i].device = d
          /\ Compare(db.glob[n][i].version, HeadEntry(n).version) = Equal

RECURSIVE ScanGlobal(_)
ScanGlobal(S) ==
    IF S = {} THEN ZeroCounters
    ELSE LET n == CHOOSE n \in S : TRUE IN
         addCounters(IF HasList(n) THEN addFile(ZeroCounters, HeadFile(n)) ELSE ZeroCounters,
                     ScanGlobal(S \ {n}))

RECURSIVE ScanInsync(_, _)
ScanInsync(d, S) ==
    IF S = {} THEN ZeroCounters
    ELSE LET n == CHOOSE n \in S : TRUE IN
         addCounters(IF AtHead(d, n) THEN addFile(ZeroCounters, HeadFile(n)) ELSE ZeroCounters,
                     ScanInsync(d, S \ {n}))

----------------------------------------------------------------------------
(* Claims *)

\* C1: after any sequence of committed updateGlobal / removeFromGlobal calls
\* the global counters equal the sum, over the files that have a version
\* list, of the size of the record held by the device at the head.
C1_GlobalCountersMatchHeads == size.global = ScanGlobal(Names)

\* C2: after any sequence of committed calls, insync[d] equals the sum of the
\* sizes of exactly the files in whose version list d has an entry with the
\* head version.
C2_InsyncCountersMatchHeads == \A d \in Devices : size.insync[d] = ScanInsync(d, Names)

\* C3: every stored version list is ordered: no entry is preceded by an entry
\* with a strictly Lesser version, and of two entries with concurrent versions
\* the one whose file wins WinsConflict comes first.
C3_VersionListsOrdered ==
    \A n \in Names : HasList(n) =>
        \A i, j \in 1..Len(db.glob[n]) : i < j =>
            LET a == db.glob[n][i]
                b == db.glob[n][j]
            IN  /\ Compare(a.version, b.version) # Lesser
                /\ Concurrent(a.version, b.version) =>
                       WinsConflict(getFile(db, a.device, n), getFile(db, b.device, n))

\* the entries of vl other than the first one of device, in order
Others(vl, device) ==
    LET i == deviceIndex(vl, device) IN
    IF i = 0 THEN vl ELSE SubSeq(vl, 1, i - 1) \o SubSeq(vl, i + 1, Len(vl))

\* What the insert of updateGlobal does guarantee: every entry in front of the
\* new one has a Greater version or a concurrent version whose file wins
\* WinsConflict against the new file, the entry right behind it has an Equal
\* or Lesser version or a concurrent version whose file loses, and the other
\* entries keep their order.
InsertedInOrder ==
    [][(/\ last'.op = "update"
        /\ ops' = ops + 1
        /\ last'.changed
        /\ ~panicked')
       => LET n == last'.name
              f == FileOf(n, last'.version)
              vl == db'.glob[n]
              p == deviceIndex(vl, last'.device)
          IN  /\ p # 0
              /\ vl[p].version = f.version
              /\ Others(vl, last'.device) = Others(getGlobal(db, n), last'.device)
              /\ \A j \in 1..(p - 1) :
                    \/ Compare(vl[j].version, f.version) = Greater
                    \/ /\ Concurrent(vl[j].version, f.version)
                       /\ ~WinsConflict(f, getFile(db, vl[j].device, n))
              /\ p < Len(vl) =>
                    \/ Compare(vl[p + 1].version, f.version) \in {Equal, Lesser}
                    \/ /\ Concurrent(vl[p + 1].version, f.version)
                       /\ WinsConflict(f, getFile(db, vl[p + 1].device, n))]_vars

C5_NoDuplicateDevices ==
    \A n \in Names : hasGlobal(db, n) =>
        \A i, j \in 1..Len(db.glob[n]) :
            i # j => db.glob[n][i].device # db.glob[n][j].device

\* a device that already had an entry announced another version and the list
\* holds more than one entry
C5_Witness ==
    /\ last.op = "update" /\ ~last.fresh /\ last.changed
    /\ HasList(last.name) /\ Len(db.glob[last.name]) >= 2

\* C6: for every global key in the committed store, the device named by the
\* head entry has a device record for that file.
C6_HeadHasDeviceRecord ==
    \A n \in Names : HasList(n) => hasFile(db, HeadEntry(n).device, n)

\* a removal has promoted another device's entry to the head
C6_Witness ==
    /\ last.op = "remove" /\ ~last.fresh
    /\ HasList(last.name)
    /\ hasFile(db, HeadEntry(last.name).device, last.name)
    /\ Compare(HeadFile(last.name).version, getFile(db, last.device, last.name).version) # Equal

\* C7: no global key maps to an empty version list.
C7_NoEmptyVersionList ==
    \A n \in Names : hasGlobal(db, n) => Len(db.glob[n]) > 0

\* removeFromGlobal has removed the last entry of a list and deleted the key
C7_Witness ==
    /\ last.op = "remove" /\ ~last.fresh
    /\ ~hasGlobal(db, last.name)
    /\ batch = <<DeleteGlobal(last.name)>>

\* the device's entry in the stored list of name has exactly this version
HasSameVersion(store, device, name, version) ==
    LET vl == getGlobal(store, name)
        i == deviceIndex(vl, device)
    IN  i # 0 /\ Compare(vl[i].version, version) = Equal

WritesGlobal(b) == \E i \in 1..Len(b) : b[i].kind = "glob"

\* C8: updateGlobal for a device whose entry already has file.Version returns
\* false, writes nothing to the global key and changes no counter.
C8_IdempotentUpdate ==
    [][(/\ last'.op = "update"
        /\ ops' = ops + 1
        /\ HasSameVersion(db, last'.device, last'.name, last'.version))
       => (/\ last'.changed = FALSE
           /\ ~WritesGlobal(batch')
           /\ db'.glob = db.glob
           /\ size' = size)]_vars

\* the second of two identical updates has just been made
C8_Witness ==
    /\ last.op = "update" /\ ~last.fresh /\ ~last.changed
    /\ HasSameVersion(db, last.device, last.name, last.version)
    /\ batch = insertFile(last.device, FileOf(last.name, last.version))

\* C9: an update by a device that had no entry for the file, followed by
\* removeFromGlobal for that device and file, restores the version list and
\* the global and insync counters.
C9_RemoveRestores ==
    undo.stage = "removed" => (db.glob = undo.glob /\ size = undo.size)

\* the device had become the head with a newer version and was removed again
C9_Witness ==
    /\ undo.stage = "removed"
    /\ HasList(undo.name)
    /\ Compare(HeadEntry(undo.name).version,
               getFile(db, undo.device, undo.name).version) = Lesser

\* C10: a new device's file that is concurrent with the head and loses
\* WinsConflict against the head's file leaves the head entry and all global
\* and insync counters unchanged and is placed after the head.
C10_ConcurrentLoserStaysBehind ==
    [][(/\ last'.op = "update"
        /\ ops' = ops + 1
        /\ last'.fresh
        /\ HasList(last'.name)
        /\ Concurrent(last'.version, HeadEntry(last'.name).version)
        /\ ~WinsConflict(FileOf(last'.name, last'.version), HeadFile(last'.name)))
       => (/\ ~panicked'
           /\ db'.glob[last'.name][1] = db.glob[last'.name][1]
           /\ deviceIndex(db'.glob[last'.name], last'.device) > 1
           /\ size' = size)]_vars

\* a new device has announced a concurrent version that lost against the head
C10_Witness ==
    /\ last.op = "update" /\ last.fresh /\ last.changed
    /\ HasList(last.name)
    /\ HeadEntry(last.name).device # last.device
    /\ Concurrent(last.version, HeadEntry(last.name).version)
    /\ ~WinsConflict(FileOf(last.name, last.version), HeadFile(last.name))

\* C11: a read-only transaction opened while a read-write transaction runs,
\* or after it closed, holds the store as it was before that transaction
\* (none of its writes) or, once it closed, the store with every write of the
\* transaction, as long as the transaction's checkFlush never wrote.
C11_SnapshotSeesNoneOrAll ==
    (reader.open /\ ~tx.flushed /\ ~panicked)
        => \/ reader.store = tx.pre
           \/ (tx.state = "closed" /\ reader.store = Write(tx.pre, tx.writes))

\* a reader holds a snapshot taken while the transaction had batched a device
\* record and a version list, and the transaction has closed since
C11_Witness ==
    /\ reader.open /\ ~tx.flushed /\ tx.state = "closed"
    /\ Len(tx.writes) >= 2
    /\ reader.store = tx.pre
    /\ db = Write(tx.pre, tx.writes)
    /\ db # tx.pre

\* what the exclusion is for: after a checkFlush a reader holds some of the
\* transaction's writes and not the others
C11_FlushedSubsetSeen ==
    /\ reader.open /\ tx.flushed
    /\ reader.store # tx.pre
    /\ reader.store # Write(tx.pre, tx.writes)

\* the calls Iterate makes for one folder and hash when iterFn never accepts
Offered(store, folder, hash) ==
    LET cs == Iterate(store, <<folder>>, hash, 0).calls IN {cs[i] : i \in 1..Len(cs)}

Location(folder, name, index) ==
    [folder |-> folder, file |-> NativeFilename(name), index |-> index]

\* the hashes under which the lists written by Add hold a location of the
\* file (name, folder)
ListedHashes(store, folder, name) ==
    {h \in Hashes :
        LET bl == getLocations(store, <<KeyTypeBlock, h>>) IN
        \E i \in 1..Len(bl) : bl[i].folderID = FolderID(folder) /\ bl[i].nameID = NameID(name)}

BlockHashes(file) == {file.blocks[i] : i \in 1..Len(file.blocks)}

\* C12: after Add of a regular file, Iterate for the hash of each of its
\* blocks i offers (folder, file name, i) and offers no location that was
\* neither offered before nor added; after Discard of a file, Iterate for each
\* of its hashes offers no location of that file.
C12_BlockMapRoundTrip ==
    [][\A fo \in Folders, fs \in FileLists :
        /\ BlockMapAdd(fo, fs) =>
              /\ \A k \in 1..Len(fs) : IsRegular(fs[k]) =>
                    \A i \in 1..Len(fs[k].blocks) :
                        Location(fo, fs[k].name, i - 1) \in Offered(blocks', fo, fs[k].blocks[i])
              /\ \A h \in Hashes : \A c \in Offered(blocks', fo, h) :
                    \/ c \in Offered(blocks, fo, h)
                    \/ \E k \in 1..Len(fs) : \E i \in 1..Len(fs[k].blocks) :
                          IsRegular(fs[k]) /\ fs[k].blocks[i] = h /\ c = Location(fo, fs[k].name, i - 1)
        /\ BlockMapDiscard(fo, fs) =>
              \A k \in 1..Len(fs) : \A h \in BlockHashes(fs[k]) :
                  ~FoundUnder(blocks', fo, fs[k].name, h)]_vars

\* C13: after Update with a regular file that the block map knew with other
\* blocks, Iterate offers (folder, name, i) under the hash of each current
\* block i, and offers no location of the file under a hash that only its
\* previous version had.
C13_UpdateReplacesBlocks ==
    [][\A fo \in Folders, fs \in FileLists :
        BlockMapUpdate(fo, fs) =>
            \A k \in 1..Len(fs) :
                (/\ IsRegular(fs[k])
                 /\ ListedHashes(blocks, fo, fs[k].name) # {}
                 /\ ListedHashes(blocks, fo, fs[k].name) # BlockHashes(fs[k]))
                => /\ \A i \in 1..Len(fs[k].blocks) :
                         Location(fo, fs[k].name, i - 1) \in Offered(blocks', fo, fs[k].blocks[i])
                   /\ \A h \in ListedHashes(blocks, fo, fs[k].name) \ BlockHashes(fs[k]) :
                         ~FoundUnder(blocks', fo, fs[k].name, h)]_vars

\* The same in the lists that Add writes: after such an Update the list under
\* the hash of each current block holds a location of the file. (Update only
\* takes the file's location out of those lists.)
UpdateListsCurrentBlocks ==
    [][\A fo \in Folders, fs \in FileLists :
        BlockMapUpdate(fo, fs) =>
            \A k \in 1..Len(fs) :
                (IsRegular(fs[k]) /\ ListedHashes(blocks, fo, fs[k].name) # {})
                => BlockHashes(fs[k]) \subseteq ListedHashes(blocks', fo, fs[k].name)]_vars

\* the locations stored for hash in folder: one per key of the layout
\* (KeyTypeBlock, folder ID, hash, name)
StoredLocations(store, folder, hash) ==
    {[folder |-> folder, file |-> NativeFilename(blockKeyName(k)), index |-> store[k].index] :
        k \in {x \in DOMAIN store :
                 /\ Len(x) > blockKeyLen
                 /\ x[1] = KeyTypeBlock /\ x[2] = FolderID(folder) /\ x[3] = hash}}

\* the number of locations stored for hash in the listed folders together
RECURSIVE StoredCount(_, _, _)
StoredCount(store, folders, hash) ==
    IF folders = <<>> THEN 0
    ELSE Cardinality(StoredLocations(store, Head(folders), hash))
         + StoredCount(store, Tail(folders), hash)

\* the position, in the list of folders, of the folder whose locations the
\* i-th call belongs to when every folder's locations are offered in turn
RECURSIVE FolderAt(_, _, _, _)
FolderAt(store, folders, hash, i) ==
    LET n == Cardinality(StoredLocations(store, Head(folders), hash)) IN
    IF i <= n THEN 1 ELSE 1 + FolderAt(store, Tail(folders), hash, i - n)

C14_ExhaustedWitness ==
    /\ iter.folders = <<"g", "f">>
    /\ Len(iter.calls) = 2
    /\ iter.calls[1].folder = "g" /\ iter.calls[2].folder = "f"
    /\ ~iter.result

\* the location of the call of Fix under way or just written is found under
\* exactly one of oldHash and newHash (under the hash, when they are equal)
FixUnderExactlyOne ==
    LET o == FoundUnder(blocks, fixc.folder, fixc.file, fixc.oldHash)
        n == FoundUnder(blocks, fixc.folder, fixc.file, fixc.newHash)
    IN  (o \/ n) /\ (fixc.oldHash # fixc.newHash => ~(o /\ n))

\* after Fix the location is found under newHash with the given index and,
\* when the hashes differ, not under oldHash
FixPost ==
    /\ Location(fixc.folder, fixc.file, fixc.index)
          \in Offered(blocks, fixc.folder, fixc.newHash)
    /\ fixc.oldHash # fixc.newHash
          => ~FoundUnder(blocks, fixc.folder, fixc.file, fixc.oldHash)

\* C15: Fix is atomic: in every state a reader can observe, before and after
\* the write of Fix, the location (folder, file) is found under oldHash or
\* under newHash, never under both and never under neither; after Fix it is
\* found under newHash with block index equal to index and, when the hashes
\* differ, not under oldHash.
C15_FixAtomic ==
    /\ fixc.pc \in {"built", "done"} => FixUnderExactlyOne
    /\ fixc.pc = "done" => FixPost

\* C15, amended: the same for every call of Fix whose location was stored
\* under oldHash and, when the hashes differ, not under newHash when Fix was
\* called; the state after Fix is as stated for every call.
C15_FixAtomicWhenUnderOldHash ==
    /\ (/\ fixc.pc \in {"built", "done"}
        /\ fixc.wasOld
        /\ fixc.oldHash # fixc.newHash => ~fixc.wasNew) => FixUnderExactlyOne
    /\ fixc.pc = "done" => FixPost

\* Fix has moved a location that was stored under oldHash alone to a
\* different newHash
C15_Witness ==
    /\ fixc.pc = "done"
    /\ fixc.wasOld /\ ~fixc.wasNew
    /\ fixc.oldHash # fixc.newHash
    /\ FoundUnder(blocks, fixc.folder, fixc.file, fixc.newHash)

\* a reader's state between the building of the batch and its write
C15_BuiltWitness ==
    /\ fixc.pc = "built"
    /\ fixc.wasOld /\ ~fixc.wasNew
    /\ fixc.oldHash # fixc.newHash
    /\ FoundUnder(blocks, fixc.folder, fixc.file, fixc.oldHash)

\* the values of a sequence
Range(s) == {s[i] : i \in 1..Len(s)}

\* what the last insertFile call stored under the device key is the file with
\* the local version the call returned
InsertStoredReturned ==
    /\ hasFile(db, ins.device, ins.name)
    /\ getFile(db, ins.device, ins.name).localVersion = ins.returned

C16_GivenWitness ==
    /\ ins.called
    /\ ins.given = 2
    /\ ins.before # <<>>
    /\ getFile(db, ins.device, ins.name).localVersion = 2

\* the step is a call of the operation op: the call is recorded in last
Called(op) == ops' = ops + 1 /\ last'.op = op

\* C17: removeFromGlobal for a file name that has no global key returns
\* without a panic and changes nothing: the transaction's batch stays empty,
\* so no key is written or deleted, and no counter of the size tracker
\* changes.
C17_RemoveAbsentGlobalIsNoOp ==
    [][(Called("remove") /\ last'.name \notin DOMAIN db.glob)
          => (~panicked' /\ batch' = <<>> /\ db' = db /\ size' = size)]_vars

\* removeFromGlobal was called for a device that has a record of the file
\* while the file had no global key, and returned
C17_Witness ==
    /\ last.op = "remove"
    /\ ~panicked
    /\ batch = <<>>
    /\ last.name \notin DOMAIN db.glob
    /\ <<last.device, last.name>> \in DOMAIN db.dev

\* the version list of the name references a device whose record of the file
\* is missing from the store
ReferencesMissing(store, name) ==
    /\ name \in DOMAIN store.glob
    /\ \E i \in 1..Len(store.glob[name]) :
          <<store.glob[name][i].device, name>> \notin DOMAIN store.dev

\* the record of the list's i-th device is missing
MissingAt(store, vl, name, i) == <<vl[i].device, name>> \notin DOMAIN store.dev

RemovePanics(d, n) ==
    LET oldV == IF n \in DOMAIN db.glob THEN db.glob[n] ELSE <<>>
        newV == withoutDevice(oldV, d)
    IN  /\ (oldV # <<>> /\ MissingAt(db, oldV, n, 1)) => panicked'
        /\ (/\ newV # <<>>
            /\ Compare(oldV[1].version, newV[1].version) # Equal
            /\ MissingAt(db, newV, n, 1)) => panicked'

\* updateGlobal(d, f) panics when the record of the first other device's
\* entry is missing and that entry is concurrent with the new version, or
\* when the record of the list's head is missing and the new version is newer
\* than every listed one
UpdatePanics(d, n, v) ==
    LET oldV == IF n \in DOMAIN db.glob THEN db.glob[n] ELSE <<>>
        others == withoutDevice(oldV, d)
        listed == \E i \in 1..Len(oldV) : oldV[i] = [device |-> d, version |-> v]
    IN  /\ (/\ ~listed
            /\ others # <<>>
            /\ Compare(others[1].version, v) \in {ConcurrentLesser, ConcurrentGreater}
            /\ MissingAt(db, others, n, 1)) => panicked'
        /\ (/\ oldV # <<>>
            /\ \A i \in 1..Len(oldV) : Compare(oldV[i].version, v) = Lesser
            /\ MissingAt(db, oldV, n, 1)) => panicked'

C18_UpdateWitness ==
    /\ panicked
    /\ last.op = "update"
    /\ ReferencesMissing(db, last.name)

\* updateGlobal returned on a list that references a missing record
C18_CompletedWitness ==
    /\ ~panicked
    /\ last.op = "update"
    /\ batch # <<>>
    /\ ReferencesMissing(db, last.name)

\* the sizes of the files device d needs: the non-deleted head files of the
\* version lists in which d has no entry with the head version
RECURSIVE ScanNeed(_, _)
ScanNeed(d, S) ==
    IF S = {} THEN ZeroCounters
    ELSE LET n == CHOOSE n \in S : TRUE IN
         addCounters(IF HasList(n) /\ ~AtHead(d, n) /\ ~HeadFile(n).deleted
                     THEN addFile(ZeroCounters, HeadFile(n)) ELSE ZeroCounters,
                     ScanNeed(d, S \ {n}))

\* C19: after any sequence of committed updateGlobal and removeFromGlobal
\* calls, need[d] equals, for every device d, the sum of the sizes of the
\* non-deleted files for which d is not at the head version, the files d does
\* not have included.
C19_NeedCountersMatchHeads ==
    ~panicked => \A d \in Devices : size.need[d] = ScanNeed(d, Names)

\* a device announced a strictly newer version of a file that another device
\* has: the other device needs the file
C19_NewerVersionAnnounced ==
    /\ ~panicked
    /\ last.op = "update"
    /\ \E n \in Names, d \in Devices :
          /\ HasList(n) /\ Len(db.glob[n]) = 2
          /\ HeadEntry(n).device = last.device
          /\ db.glob[n][2].device = d
          /\ Compare(db.glob[n][2].version, HeadEntry(n).version) = Lesser
          /\ ScanNeed(d, Names).files = 1
          /\ size.need[d].files = 0

\* C20: wrapError(nil, d) returns nil for every description d; wrapErrorPointer
\* leaves an error slot that holds nil at nil, and replaces a non-nil error e
\* in the slot by a WrappedError whose Wrapped is e.
C20_WrapNilIsNil ==
    /\ wcall.op = "wrapError" =>
          /\ wcall.arg = Nil => wcall.result = Nil
          /\ wcall.arg # Nil =>
                (wcall.result.kind = "WrappedError" /\ wcall.result.Wrapped = wcall.arg)
    /\ wcall.op = "wrapErrorPointer" =>
          /\ wcall.arg = Nil => errp = Nil
          /\ wcall.arg # Nil =>
                /\ errp.kind = "WrappedError"
                /\ errp.Wrapped = wcall.arg
                /\ errp.Description = wcall.description

\* a function returned nil and its deferred wrapErrorPointer left the slot nil
C20_Witness ==
    /\ wcall.op = "wrapErrorPointer"
    /\ wcall.arg = Nil
    /\ wcall.description = "hey"
    /\ errp = Nil

\* a deferred wrapErrorPointer wrapped the error a function returned
C20_WrappedWitness ==
    /\ wcall.op = "wrapErrorPointer"
    /\ wcall.arg = New("foo")
    /\ errp = WrappedError(New("foo"), "hey")

\* wrapError of nil, called directly
C20_DirectWitness ==
    /\ wcall.op = "wrapError"
    /\ wcall.arg = Nil
    /\ wcall.result = Nil

\* dn: ...: d1: , the descriptions from the last added to the first, each
\* followed by ": "
RECURSIVE Prefixes(_)
Prefixes(ds) ==
    IF ds = <<>> THEN ""
    ELSE ds[Len(ds)] \o ": " \o Prefixes(SubSeq(ds, 1, Len(ds) - 1))

\* C21: for every non-nil error e that is no WrappedError and every n >= 1
\* successive wrapError calls on top of it, Original() of the outermost
\* WrappedError returns exactly e.
C21_OriginalPeelsAllLayers ==
    (ocall.op = "Original" /\ Len(built.descriptions) >= 1) => ocall.original = built.base

\* Original() was called on an error wrapped twice
C21_Witness ==
    /\ ocall.op = "Original"
    /\ Len(built.descriptions) = 2
    /\ errp.Wrapped.kind = "WrappedError"
    /\ ocall.original = New("foo")

\* C22: Error() of an error e wrapped with the descriptions d1, ..., dn in
\* turn is dn: ...: d1: followed by e's message.
C22_ErrorJoinsDescriptions ==
    ocall.op = "Error" => ocall.text = Prefixes(built.descriptions) \o built.base.text

\* Error() of foo wrapped with hey and then with oi
C22_Witness ==
    /\ ocall.op = "Error"
    /\ built = [base |-> New("foo"), descriptions |-> <<"hey", "oi">>]
    /\ ocall.text = "oi: hey: foo"

\* the marker exists in the folder's directory
MarkerExists(t) == t.path = "dir" /\ t.marker

\* the calls of the log that take the marker away: its removal and the
\* removal of the directory
Removals == {"RemoveMarker", "RemoveAll"}

\* C23: over any sequence of directory creation and removal, CreateMarker
\* and marker removal, CheckMarker returns nil exactly when the marker exists
\* in the folder's path; CreateMarker returns an error and creates nothing
\* when the directory does not exist; after a CreateMarker that succeeded,
\* CheckMarker returns nil until the marker is removed.
C23_MarkerLifecycle ==
    /\ \A i \in 1..Len(flog) :
          /\ flog[i].op = "CheckMarker"
                => (flog[i].err = NoError <=> MarkerExists(flog[i].pre))
          /\ (flog[i].op = "CreateMarker" /\ flog[i].pre.path = "absent")
                => (flog[i].err # NoError /\ flog[i].post = flog[i].pre)
    /\ \A i, j \in 1..Len(flog) :
          (/\ i < j
           /\ flog[i].op = "CreateMarker" /\ flog[i].err = NoError
           /\ flog[j].op = "CheckMarker"
           /\ \A k \in (i + 1)..(j - 1) : flog[k].op \notin Removals)
              => flog[j].err = NoError

\* the directory was made, the marker created in it and, after another call
\* that is no removal, checked
C23_Witness ==
    /\ Len(flog) = 4
    /\ flog[1].op = "Mkdir" /\ flog[1].pre = NoDir
    /\ flog[2].op = "CreateMarker" /\ flog[2].err = NoError
    /\ flog[3].op = "CheckFolderHealth"
    /\ flog[4].op = "CheckMarker" /\ flog[4].err = NoError

\* CreateMarker failed where there is no directory
C23_NoDirWitness ==
    /\ Len(flog) >= 1
    /\ flog[Len(flog)].op = "CreateMarker"
    /\ flog[Len(flog)].pre = NoDir
    /\ flog[Len(flog)].err = ENOENT
    /\ disk = NoDir

\* C28: CheckFolderHealth with emptyOK=false creates neither the directory
\* nor the marker and returns nil only if the path is a directory that
\* contains the marker, else "folder path missing" or "folder marker
\* missing"; with emptyOK=true it creates what is missing, and when it
\* returns nil the directory and the marker both exist afterwards.
C28_CheckFolderHealth ==
    \A i \in 1..Len(flog) :
        flog[i].op = "CheckFolderHealth" =>
            /\ ~flog[i].emptyOK =>
                  /\ flog[i].post = flog[i].pre
                  /\ flog[i].err = NoError <=> MarkerExists(flog[i].pre)
                  /\ flog[i].err = PathMissing <=> flog[i].pre.path # "dir"
                  /\ flog[i].err = MarkerMissing
                        <=> (flog[i].pre.path = "dir" /\ ~flog[i].pre.marker)
            /\ flog[i].emptyOK =>
                  /\ flog[i].err = NoError => MarkerExists(flog[i].post)
                  /\ flog[i].pre.path # "absent" => flog[i].post.path = flog[i].pre.path
                  /\ flog[i].pre.marker => flog[i].post.marker

\* CheckFolderHealth(true) made the directory and the marker
C28_Witness ==
    /\ Len(flog) >= 1
    /\ flog[Len(flog)].op = "CheckFolderHealth"
    /\ flog[Len(flog)].emptyOK
    /\ flog[Len(flog)].pre = NoDir
    /\ flog[Len(flog)].err = NoError
    /\ MarkerExists(disk)

\* CheckFolderHealth(false) found a directory without its marker
C28_MarkerMissingWitness ==
    /\ Len(flog) >= 1
    /\ flog[Len(flog)].op = "CheckFolderHealth"
    /\ ~flog[Len(flog)].emptyOK
    /\ flog[Len(flog)].err = MarkerMissing
    /\ disk = [path |-> "dir", marker |-> FALSE]

\* the writes issued through the transaction are those written to the store
\* followed by those still in the batch, and the store is the store the
\* transaction was opened on with the written ones applied in that order
IssuedOnce ==
    tx.state \in {"open", "closed"} =>
        /\ tx.applied \o tx.batch = tx.writes
        /\ db = Write(tx.pre, tx.applied)

\* after close every issued write is in the store
AllAppliedAtClose ==
    tx.state = "closed" =>
        /\ tx.batch = <<>>
        /\ tx.applied = tx.writes
        /\ db = Write(tx.pre, tx.writes)

\* a step of the open transaction that writes to the store is a checkFlush
\* of a batch larger than batchFlushSize
FlushOnlyOverSize ==
    (tx.state = "open" /\ tx'.state = "open" /\ tx'.applied # tx.applied)
        => (Len(tx.batch) > batchFlushSize /\ tx'.batch = <<>>)

\* C24: every Put and Delete issued through a read-write transaction is
\* applied to the store exactly once and in issue order by the time close
\* returns, however many checkFlush calls came in between; checkFlush writes
\* and resets the batch only when its size exceeds batchFlushSize.
C24_WritesAppliedOnceInOrder ==
    [](IssuedOnce /\ AllAppliedAtClose) /\ [][FlushOnlyOverSize]_vars

\* a transaction closed after a checkFlush had written part of its writes
C24_Witness ==
    /\ tx.state = "closed"
    /\ tx.flushed
    /\ ~panicked
    /\ Len(tx.writes) > batchFlushSize + 1
    /\ tx.applied = tx.writes
    /\ db = Write(tx.pre, tx.writes)

\* C25: the reads of a read-write transaction, the version list read by
\* updateGlobal and the device records read by getFile, return the store as
\* it was when the transaction was opened: not its own pending writes, not
\* the writes it flushed, not the writes others committed since. So two
\* updateGlobal calls for the same name in one transaction start from the
\* same version list.
C25_ReadsSeeOpeningStore ==
    (tx.state = "open" /\ tx.called) => tx.view = tx.pre

\* a second updateGlobal for the same name read the opening store although
\* the first call's writes were flushed to the store
C25_Witness ==
    /\ tx.state = "open" /\ tx.called
    /\ tx.flushed
    /\ tx.batch # <<>>
    /\ tx.view = tx.pre
    /\ db # tx.pre
    /\ getGlobal(db, "x") # getGlobal(tx.view, "x")

\* updateGlobal read the opening store although another writer had committed
\* since
C25_OtherWriterWitness ==
    /\ tx.state = "open" /\ tx.called
    /\ ~tx.flushed
    /\ last.op = "update"
    /\ tx.view = tx.pre
    /\ db # tx.pre
    /\ tx.batch # <<>>

\* the block keys of the blocks listed in the deleted and invalid files of a
\* list, and the files of the list that are regular
SkippedKeys(fo, fs) ==
    UNION {{blockKeyInto(<<h>>, FolderID(fo), fs[k].name) : h \in BlockHashes(fs[k])} :
              k \in {j \in 1..Len(fs) : fs[j].kind \in {"deleted", "invalid"}}}
RegularOnly(fs) == SelectSeq(fs, IsRegular)
WithoutKeys(store, keys) == [k \in (DOMAIN store) \ keys |-> store[k]]

\* C26: Add and Update create no block-map entry for a file that is a
\* directory, deleted or invalid. In Add such a file contributes nothing: the
\* block map is as after Add of the regular files of the list alone. In
\* Update a deleted or invalid file contributes the removal of the block keys
\* of its listed blocks and no key: the block map is as after removing those
\* keys and Update of the regular files of the list alone.
C26_NoEntryForSkippedFiles ==
    [][\A fo \in Folders, fs \in FileLists :
        /\ BlockMapAdd(fo, fs) =>
              blocks' = addFiles(blocks, <<>>, NewKey, FolderID(fo), RegularOnly(fs))
        /\ BlockMapUpdate(fo, fs) =>
              blocks' = updateFiles(WithoutKeys(blocks, SkippedKeys(fo, fs)), <<>>, NewKey,
                                    FolderID(fo), RegularOnly(fs))]_vars

\* The same for the calls all of whose files are directories, deleted or
\* invalid: Add leaves the block map unchanged, Update removes the block keys
\* of the listed blocks and adds none.
C26_SkippedFilesAlone ==
    [][\A fo \in Folders, fs \in FileLists :
        RegularOnly(fs) = <<>> =>
            /\ BlockMapAdd(fo, fs) => blocks' = blocks
            /\ BlockMapUpdate(fo, fs) => blocks' = WithoutKeys(blocks, SkippedKeys(fo, fs))]_vars

\* Add with a skipped file in the list
C26_AddSkips ==
    [][\A fo \in Folders, fs \in FileLists :
        BlockMapAdd(fo, fs) =>
              blocks' = addFiles(blocks, <<>>, NewKey, FolderID(fo), RegularOnly(fs))]_vars

\* the block-map entries of a folder: what Iterate offers for it under each
\* hash, and the hashes under which the lists written by Add name its files
EntriesOf(store, folder) ==
    [offered |-> [h \in Hashes |-> Offered(store, folder, h)],
     listed |-> [n \in BlockNames |-> ListedHashes(store, folder, n)]]
NoEntries ==
    [offered |-> [h \in Hashes |-> {}], listed |-> [n \in BlockNames |-> {}]]

\* C27: Drop on a folder removes every block-map entry of the folder
\* (afterwards Iterate for the folder calls fn under no hash) and leaves the
\* block-map entries of every other folder, and every key that is no block
\* key, unchanged.
C27_DropRemovesFolderOnly ==
    [][\A fo \in Folders :
        BlockMapDrop(fo) =>
            /\ EntriesOf(blocks', fo) = NoEntries
            /\ \A other \in Folders \ {fo} : EntriesOf(blocks', other) = EntriesOf(blocks, other)
            /\ db' = db]_vars

\* The part of it that Iterate can observe: after Drop, Iterate offers
\* nothing for the folder and what it offered before for every other folder.
C27_DropAsIterateSeesIt ==
    [][\A fo \in Folders :
        BlockMapDrop(fo) =>
            /\ \A h \in Hashes : Offered(blocks', fo, h) = {}
            /\ \A other \in Folders \ {fo}, h \in Hashes :
                  Offered(blocks', other, h) = Offered(blocks, other, h)
            /\ db' = db]_vars

\* a Drop that removed entries Iterate offered, with another folder's left
C27_IterateWitness ==
    /\ bop.op = "drop"
    /\ \E other \in Folders \ {bop.folder}, h \in Hashes : Offered(blocks, other, h) # {}
    /\ \A h \in Hashes : Offered(blocks, bop.folder, h) = {}

\* removeFromGlobal was called for a device that has no entry in the file's
\* version list, which exists
RemoveOfAbsentDevice ==
    /\ Called("remove")
    /\ hasGlobal(db, last'.name)
    /\ deviceIndex(getGlobal(db, last'.name), last'.device) = 0

\* C29: removeFromGlobal for a device that has no entry in the file's
\* (non-empty) version list leaves the contents of the version list and
\* every global and insync counter unchanged, whatever the versions in the
\* list, a head entry with an empty version vector included.
C29_RemoveAbsentDeviceIsNoOp ==
    [][RemoveOfAbsentDevice =>
          /\ ~panicked'
          /\ db'.glob = db.glob
          /\ size'.global = size.global
          /\ size'.insync = size.insync]_vars

\* The same when the head entry's version vector is not empty.
C29_NoOpUnlessHeadEmpty ==
    [][(RemoveOfAbsentDevice /\ getGlobal(db, last'.name)[1].version # NoVersion) =>
          /\ ~panicked'
          /\ db' = db
          /\ size' = size]_vars

\* such a call was made on a list whose head is not empty, and on one whose
\* head is empty
C29_Witness ==
    /\ last.op = "remove" /\ last.fresh /\ ~panicked
    /\ hasGlobal(db, last.name)
    /\ getGlobal(db, last.name)[1].version # NoVersion
C29_EmptyHeadWitness ==
    /\ last.op = "remove" /\ last.fresh /\ ~panicked
    /\ hasGlobal(db, last.name)
    /\ getGlobal(db, last.name)[1].version = NoVersion

====
